---- MODULE Spec2Model ----
(***************************************************************************)
(* MCP Copilot Relay: the connection lifecycle of one MCPClient            *)
(* (src/src/mcpClient/MCPClient.ts), tool invocation through it, and the   *)
(* ToolRegistry (src/unnamed/part_007).                                    *)
(*                                                                         *)
(* JavaScript runs one callback at a time, so every action below is one    *)
(* run-to-completion piece of code: a public method up to its first        *)
(* await, the continuation after an await, a timer callback, or a          *)
(* notification handler.  The SDK (Client, transports) and the host are    *)
(* external: whether a round trip resolves or rejects, and when a          *)
(* transport raises onerror/onclose, is a nondeterministic choice.         *)
(***************************************************************************)
EXTENDS Integers, Sequences, FiniteSets, TLC

\* ------------------------------------------------------------------ bounds
\* connect attempts (= transports created) in one run of Spec
MaxAttempts == 5
\* connect attempts in one run of SpecInvoke
InvokeAttempts == 1
\* connect attempts in one run of SpecScenarioA
ScenarioAttempts == 6
\* health-check round trips in flight at once
MaxHealth == 1
\* tool invocations in one run of SpecInvoke
MaxInvokes == 1
\* tools one server reports to registerServerTools
MaxTools == 2
\* MCPClient objects the extension constructs in one run
MaxObjs == 2
\* requests the panel posts in one run of SpecServers
MaxReqs == 1
\* edits of the servers setting by the user in one run of SpecServers
MaxEdits == 1
\* timer-fired connect() calls pending on one object at once
MaxPend == 1
\* tools a server reports to tools/list in one run of SpecBatch
BatchTools == 5
\* disposables the host returns in one run of SpecHandles
MaxHandles == 3
\* connect attempts in one run of SpecLive
LiveAttempts == 5

\* ------------------------------------------------------- program constants
\* private maxReconnectAttempts: number = 3
MaxReconnectAttempts == 3

\* the name of the server the MCPClient connects to
ServerName == <<"a">>

\* what the server answers to tools/list: the names of its tools, as strings
ServerTools == << <<"c">> >>

VARIABLES
  mc,               \* the MCPClient object: its fields, and the timers it has set
  conn,             \* connect() calls: how many await client.connect
                    \* ("open"), await listTools ("list"), are over ("done");
                    \* "cur": how many of the pending listTools were issued
                    \* on the transport that this.transport still holds
  nextId,           \* number of the next connect attempt
  idLimit,          \* attempts allowed in this run (a bound, fixed by Init)
  alive,            \* how many transports can still raise onerror / onclose
  disc,             \* the disconnect() call in flight, if any
  health,           \* health-check round trips in flight
  afterDisconnect,  \* history: "no" until disconnect() has returned, "just"
                    \* right after it returned, "yes" later
  inv,              \* the invokeTool call in flight, if any
  token,            \* the host's cancellation token of that call
  calls,            \* callTool requests issued on the transport
  invoked,          \* invocations made so far
  lastResult,       \* how the last invocation ended
  toolStates,       \* the toolStates setting: <<server, tool>> -> ToolState
  registeredTools,  \* ToolRegistry.registeredTools: key -> the id its
                    \* disposable was registered under with the host
  removedId,        \* history: key -> the id its entry had when unticking
                    \* the tool in the panel removed it
  handles,          \* the disposables vscode.lm.registerTool has returned:
                    \* which one each key of registeredTools holds, and as
                    \* history how often each has been disposed
  ext               \* the MCPRelayExtension object: the servers setting it
                    \* reads, its clients map, the MCPClient objects it
                    \* made, its async calls in flight, and as history the
                    \* last request's outcome

lifeVars == <<mc, conn, nextId, idLimit, alive, disc, health, afterDisconnect>>
invVars == <<inv, token, calls, invoked, lastResult>>
regVars == <<toolStates, registeredTools, removedId, handles>>
vars == <<mc, conn, nextId, idLimit, alive, disc, health, afterDisconnect,
          inv, token, calls, invoked, lastResult, toolStates, registeredTools,
          removedId, handles, ext>>

\* ----------------------------------------------------- MCPClient helpers

\* a fresh MCPClient (field initialisers and constructor)
NewClient(auto, ok) ==
  [ status              |-> "Disconnected",
    client              |-> 0,        \* 0 is null, else the attempt that made it;
                                      \* await and callbacks read the field anew
    transport           |-> 0,
    discoveredTools     |-> <<>>,
    reconnectTimer      |-> FALSE,    \* the field holds a timeout handle
    healthCheckInterval |-> FALSE,    \* the field holds an interval handle
    reconnectAttempts   |-> 0,
    autoReconnect       |-> auto,
    configOk            |-> ok,       \* the config names the url / command
    timeouts            |-> 0,        \* setTimeout callbacks pending in the runtime
    intervals           |-> 0,        \* setInterval timers live in the runtime
    scheduled           |-> 0,        \* history: scheduleReconnect calls since the
                                      \* last successful connect or reconnect()
    errorEvents         |-> 0 ]       \* history: the 'error' events emitted so
                                      \* far, modulo 2

setStatus(c, s) == [c EXCEPT !.status = s]

\* a scheduleReconnect that forgets to count the attempt
scheduleReconnectUncounted(c) ==
  [c EXCEPT !.reconnectTimer = TRUE,
            !.timeouts = @ + 1,
            !.scheduled = @ + 1]

scheduleReconnect(c) ==
  [c EXCEPT !.reconnectAttempts = @ + 1,
            !.reconnectTimer = TRUE,
            !.timeouts = @ + 1,
            !.scheduled = @ + 1]

\* this.emit('error', error)
emitError(c) == [c EXCEPT !.errorEvents = 1 - @]

\* a handleError whose budget test is off by one (<= for <)
handleErrorOverBudget(c) ==
  LET e == emitError(setStatus(c, "Error"))
  IN IF e.autoReconnect /\ ~e.reconnectTimer
        /\ e.reconnectAttempts <= MaxReconnectAttempts
     THEN scheduleReconnect(e)
     ELSE e

\* a handleError that recovers and tells no subscriber
handleErrorSilent(c) ==
  LET e == setStatus(c, "Error")
  IN IF e.autoReconnect /\ ~e.reconnectTimer
        /\ e.reconnectAttempts < MaxReconnectAttempts
     THEN scheduleReconnect(e)
     ELSE e

handleError(c) ==
  LET e == emitError(setStatus(c, "Error"))
  IN IF e.autoReconnect /\ ~e.reconnectTimer
        /\ e.reconnectAttempts < MaxReconnectAttempts
     THEN scheduleReconnect(e)
     ELSE e

\* a handleDisconnect that does not look at the state
handleDisconnectAlways(c) ==
  LET d == setStatus(c, "Disconnected")
  IN IF d.autoReconnect /\ ~d.reconnectTimer
     THEN scheduleReconnect(d)
     ELSE d

\* a handleDisconnect that schedules no reconnect
handleDisconnectOnly(c) ==
  IF c.status = "Connected" THEN setStatus(c, "Disconnected") ELSE c

handleDisconnect(c) ==
  IF c.status = "Connected"
  THEN LET d == setStatus(c, "Disconnected")
       IN IF d.autoReconnect /\ ~d.reconnectTimer
          THEN scheduleReconnect(d)
          ELSE d
  ELSE c

stopHealthCheck(c) ==
  IF c.healthCheckInterval
  THEN [c EXCEPT !.healthCheckInterval = FALSE, !.intervals = @ - 1]
  ELSE c

\* a startHealthCheck that leaves a previous interval running
startHealthCheckAgain(c) ==
  [c EXCEPT !.healthCheckInterval = TRUE, !.intervals = @ + 1]

startHealthCheck(c) ==
  [stopHealthCheck(c) EXCEPT !.healthCheckInterval = TRUE, !.intervals = @ + 1]

\* disconnect() up to its first await
disconnectStart(c) ==
  LET h == stopHealthCheck(c)
  IN IF h.reconnectTimer
     THEN [h EXCEPT !.reconnectTimer = FALSE, !.timeouts = @ - 1]
     ELSE h

\* disconnect() after its last await
disconnectEnd(c) == setStatus([c EXCEPT !.discoveredTools = <<>>], "Disconnected")

\* an end of connect() that leaves the counter as it is
connectedKeepsCounter(c) ==
  startHealthCheck([setStatus(c, "Connected") EXCEPT !.scheduled = 0])

\* connect() after discoverTools() returned
connected(c) ==
  startHealthCheck([setStatus(c, "Connected") EXCEPT !.reconnectAttempts = 0,
                                                     !.scheduled = 0])

\* no extension: the specifications of one client
NoExtension ==
  [servers |-> <<>>, objs |-> <<>>, clients |-> <<>>, auto |-> FALSE,
   tasks |-> <<>>, lastOp |-> [op |-> "none", name |-> <<>>, result |-> "none"],
   reqs |-> 0, edits |-> 0]

\* no invocation made yet
NoResult ==
  [via |-> "none", status |-> "none", hadClient |-> FALSE, pre |-> FALSE,
   late |-> FALSE, what |-> "none", how |-> "none", issued |-> FALSE]

Aged == IF afterDisconnect = "just" THEN "yes" ELSE afterDisconnect

Done == conn.done
InFlight == conn.open + conn.list

\* --------------------------------------------------------- tool registry
\* strings are sequences of characters, so that the ids and keys built from
\* them are built as the code builds them

ServerNames == { <<"a">>, <<"a", "_", "_", "b">> }
ToolNames == { <<"c">>, <<"b", "_", "_", "c">> }
\* customName of a ToolState; the empty string stands for an absent one too,
\* both being falsy
CustomNames == { <<>>, <<"x">> }
ToolStates == [enabled : BOOLEAN, customName : CustomNames]

\* what client.getTools() can hold: up to MaxTools distinct tools, in order
ToolLists ==
  { l \in UNION { [1..n -> ToolNames] : n \in 1..MaxTools } :
      \A i, j \in 1..Len(l) : i # j => l[i] # l[j] }

\* ConfigManager.getToolState
getToolState(states, serverName, toolName) ==
  IF <<serverName, toolName>> \in DOMAIN states
  THEN states[<<serverName, toolName>>]
  ELSE [enabled |-> TRUE, customName |-> <<>>]

\* a toolId that leaves the server name out
toolIdUnqualified(serverName, toolName, toolState) ==
  IF toolState.customName # <<>> THEN toolState.customName ELSE toolName

\* toolState.customName || `${serverName}__${tool.name}`
toolId(serverName, toolName, toolState) ==
  IF toolState.customName # <<>>
  THEN toolState.customName
  ELSE serverName \o <<"_", "_">> \o toolName

\* `${serverName}:${tool.name}`
fullToolKey(serverName, toolName) == serverName \o <<":">> \o toolName

\* String.prototype.startsWith
startsWith(str, prefix) ==
  Len(str) >= Len(prefix) /\ SubSeq(str, 1, Len(prefix)) = prefix

\* ToolRegistry.unregisterTool on the map m
unregisterTool(m, key) == [k \in DOMAIN m \ {key} |-> m[k]]

\* a registerTool that does not look at the tool's state
registerToolAnyState(m, states, serverName, toolName, accepted) ==
  LET toolState == getToolState(states, serverName, toolName)
      id == toolId(serverName, toolName, toolState)
      key == fullToolKey(serverName, toolName)
      m1 == IF key \in DOMAIN m THEN unregisterTool(m, key) ELSE m
  IN IF accepted THEN [k \in DOMAIN m1 \cup {key} |->
                         IF k = key THEN id ELSE m1[k]]
     ELSE m1

\* ToolRegistry.registerTool on the map m; accepted: vscode.lm.registerTool
\* returned a disposable (it threw otherwise)
registerTool(m, states, serverName, toolName, accepted) ==
  LET toolState == getToolState(states, serverName, toolName)
      id == toolId(serverName, toolName, toolState)
      key == fullToolKey(serverName, toolName)
      m1 == IF key \in DOMAIN m THEN unregisterTool(m, key) ELSE m
  IN IF ~toolState.enabled THEN m
     ELSE IF accepted THEN [k \in DOMAIN m1 \cup {key} |->
                              IF k = key THEN id ELSE m1[k]]
     ELSE m1

\* the loop of ToolRegistry.registerServerTools
RECURSIVE registerEach(_, _, _, _, _)
registerEach(m, states, serverName, tools, accepts) ==
  IF tools = <<>> THEN m
  ELSE registerEach(registerTool(m, states, serverName, Head(tools), Head(accepts)),
                    states, serverName, Tail(tools), Tail(accepts))

\* ConfigManager.setToolState on the setting states
setToolState(states, serverName, toolName, state) ==
  [p \in DOMAIN states \cup {<<serverName, toolName>>} |->
     IF p = <<serverName, toolName>> THEN state ELSE states[p]]

\* ToolRegistry.unregisterServerTools on the map m
unregisterServerTools(m, serverName) ==
  [k \in { k \in DOMAIN m : ~startsWith(k, serverName \o <<":">>) } |-> m[k]]

\* the function f without the argument k
Without(f, k) == [x \in DOMAIN f \ {k} |-> f[x]]

\* no disposable returned yet; of: key -> the number of the disposable that
\* registeredTools holds under the key; disposed: for each disposable, in
\* the order the host returned them, the dispose() calls made on it
NoHandles == [of |-> <<>>, disposed |-> <<>>]

\* disposable.dispose() on the disposable number d
dispose(h, d) == [h EXCEPT !.disposed[d] = @ + 1]

\* ToolRegistry.unregisterTool on the disposables
unregisterToolOf(h, key) ==
  IF key \in DOMAIN h.of
  THEN [dispose(h, h.of[key]) EXCEPT !.of = Without(@, key)]
  ELSE h

\* a registerTool that overwrites the entry of a key without disposing it
registerToolOverwriting(h, states, serverName, toolName, accepted) ==
  LET toolState == getToolState(states, serverName, toolName)
      key == fullToolKey(serverName, toolName)
      d == Len(h.disposed) + 1
  IN IF ~toolState.enabled THEN h
     ELSE IF accepted
     THEN [of |-> [k \in DOMAIN h.of \cup {key} |-> IF k = key THEN d ELSE h.of[k]],
           disposed |-> Append(h.disposed, 0)]
     ELSE h

\* ToolRegistry.registerTool on the disposables
registerToolOf(h, states, serverName, toolName, accepted) ==
  LET toolState == getToolState(states, serverName, toolName)
      key == fullToolKey(serverName, toolName)
      h1 == IF key \in DOMAIN h.of THEN unregisterToolOf(h, key) ELSE h
      d == Len(h1.disposed) + 1
  IN IF ~toolState.enabled THEN h
     ELSE IF accepted
     THEN [of |-> [k \in DOMAIN h1.of \cup {key} |-> IF k = key THEN d ELSE h1.of[k]],
           disposed |-> Append(h1.disposed, 0)]
     ELSE h1

\* the loop of ToolRegistry.registerServerTools on the disposables
RECURSIVE registerEachOf(_, _, _, _, _)
registerEachOf(h, states, serverName, tools, accepts) ==
  IF tools = <<>> THEN h
  ELSE registerEachOf(registerToolOf(h, states, serverName, Head(tools), Head(accepts)),
                      states, serverName, Tail(tools), Tail(accepts))

\* the disposables of the keys in keys are disposed and their entries deleted
RECURSIVE unregisterKeys(_, _)
unregisterKeys(h, keys) ==
  IF keys = {} THEN h
  ELSE LET key == CHOOSE k \in keys : TRUE
       IN unregisterKeys(unregisterToolOf(h, key), keys \ {key})

\* ToolRegistry.unregisterServerTools on the disposables
unregisterServerToolsOf(h, serverName) ==
  unregisterKeys(h, { k \in DOMAIN h.of : startsWith(k, serverName \o <<":">>) })

\* ToolRegistry.unregisterAllTools on the disposables: every one is
\* disposed, then the map is cleared
unregisterAllToolsOf(h) == [unregisterKeys(h, DOMAIN h.of) EXCEPT !.of = <<>>]

\* ------------------------------------------------------------- lifecycle

\* connect() on object state c, up to its first await
ConnectStart(c) ==
  IF c.status \in {"Connected", "Connecting"}
  THEN /\ mc' = c
       /\ UNCHANGED <<conn, nextId, alive>>
  ELSE /\ nextId <= idLimit
       /\ nextId' = nextId + 1
       /\ IF ~c.configOk
          THEN /\ mc' = handleError(setStatus(c, "Connecting"))
               /\ conn' = [conn EXCEPT !.done = @ + 1,
                                       !.cur = IF c.transport = 0 THEN 0 ELSE @]
               /\ UNCHANGED alive
          ELSE /\ mc' = [setStatus(c, "Connecting") EXCEPT !.transport = nextId,
                                                           !.client = nextId]
               /\ conn' = [conn EXCEPT !.open = @ + 1, !.cur = 0]
               /\ alive' = alive + 1

\* the connect() call that connectServer makes on the client it has just
\* constructed; nothing else calls connect() from outside
Connect ==
  /\ nextId = 1
  /\ ConnectStart(mc)
  /\ afterDisconnect' = "no"
  /\ UNCHANGED <<ext, idLimit, disc, health, invVars, regVars>>

\* the reconnect timer fires
TimerFire ==
  /\ mc.timeouts > 0
  /\ ConnectStart([mc EXCEPT !.timeouts = @ - 1, !.reconnectTimer = FALSE])
  /\ afterDisconnect' = Aged
  /\ UNCHANGED <<ext, idLimit, disc, health, invVars, regVars>>

\* client.connect(transport) resolves; discoverTools() starts
ConnectOpened ==
  /\ conn.open > 0
  /\ IF mc.client = 0
     THEN /\ mc' = handleError(mc)
          /\ conn' = [conn EXCEPT !.open = @ - 1, !.done = @ + 1]
     ELSE /\ conn' = [conn EXCEPT !.open = @ - 1, !.list = @ + 1, !.cur = @ + 1]
          /\ UNCHANGED mc
  /\ afterDisconnect' = Aged
  /\ UNCHANGED <<ext, nextId, idLimit, alive, disc, health, invVars, regVars>>

\* client.connect(transport) rejects
ConnectOpenFailed ==
  /\ conn.open > 0
  /\ mc' = handleError(mc)
  /\ conn' = [conn EXCEPT !.open = @ - 1, !.done = @ + 1]
  /\ afterDisconnect' = Aged
  /\ UNCHANGED <<ext, nextId, idLimit, alive, disc, health, invVars, regVars>>

\* a pending listTools() settles: one issued on the transport this.transport
\* holds, or (stale) one issued on a transport since closed or replaced
ListSettles(stale) ==
  /\ IF stale THEN conn.list > conn.cur ELSE conn.cur > 0
  /\ conn' = [conn EXCEPT !.list = @ - 1, !.done = @ + 1,
                          !.cur = IF stale THEN @ ELSE @ - 1]

\* listTools() resolves: discoverTools() stores the tools and emits
\* toolsDiscovered, on which connectServer's handler registers them with the
\* host (which answers each registration as it likes); connect() then runs to
\* its end
ToolsListed ==
  /\ \E stale \in BOOLEAN : ListSettles(stale)
  /\ mc' = connected([mc EXCEPT !.discoveredTools = ServerTools])
  /\ \E accepts \in [1..Len(ServerTools) -> BOOLEAN] :
       registeredTools' = registerEach(registeredTools, toolStates, ServerName,
                                       ServerTools, accepts)
  /\ removedId' = [k \in DOMAIN removedId \ DOMAIN registeredTools' |-> removedId[k]]
  /\ UNCHANGED handles
  /\ afterDisconnect' = Aged
  /\ UNCHANGED <<ext, nextId, idLimit, alive, disc, health, invVars, toolStates>>

\* listTools() rejects
ListFailed ==
  /\ \E stale \in BOOLEAN : ListSettles(stale)
  /\ mc' = handleError(mc)
  /\ afterDisconnect' = Aged
  /\ UNCHANGED <<ext, nextId, idLimit, alive, disc, health, invVars, regVars>>

\* transport.onerror
TransportError ==
  /\ alive > 0
  /\ mc' = handleError(mc)
  /\ afterDisconnect' = Aged
  /\ UNCHANGED <<ext, conn, nextId, idLimit, alive, disc, health, invVars, regVars>>

\* transport.onclose
TransportClose ==
  /\ alive > 0
  /\ alive' = alive - 1
  /\ mc' = handleDisconnect(mc)
  /\ afterDisconnect' = Aged
  /\ UNCHANGED <<ext, conn, nextId, idLimit, disc, health, invVars, regVars>>

\* the health-check interval ticks and issues its round trip
HealthTick ==
  /\ mc.intervals > 0
  /\ mc.status = "Connected" /\ mc.client # 0
  /\ health < MaxHealth
  /\ health' = health + 1
  /\ afterDisconnect' = Aged
  /\ UNCHANGED <<ext, mc, conn, nextId, idLimit, alive, disc, invVars, regVars>>

HealthOk ==
  /\ health > 0
  /\ health' = health - 1
  /\ afterDisconnect' = Aged
  /\ UNCHANGED <<ext, mc, conn, nextId, idLimit, alive, disc, invVars, regVars>>

HealthFailed ==
  /\ health > 0
  /\ health' = health - 1
  /\ mc' = handleError(mc)
  /\ afterDisconnect' = Aged
  /\ UNCHANGED <<ext, conn, nextId, idLimit, alive, disc, invVars, regVars>>

\* disconnect() after its last await on object state c; a reconnect() then
\* calls connect()
DisconnectFinish(c, re) ==
  /\ disc' = [pc |-> "idle", re |-> FALSE]
  /\ IF re
     THEN /\ ConnectStart(disconnectEnd(c))
          /\ afterDisconnect' = "no"
     ELSE /\ mc' = disconnectEnd(c)
          /\ afterDisconnect' = "just"
          /\ conn' = [conn EXCEPT !.cur = IF c.transport = 0 THEN 0 ELSE @]
          /\ UNCHANGED <<nextId, alive>>

\* disconnect() on object state c up to its first await
DisconnectStart(c, re) ==
  LET d == disconnectStart(c)
  IN IF d.client # 0
     THEN /\ disc' = [pc |-> "closeClient", re |-> re]
          /\ mc' = d
          /\ afterDisconnect' = IF re THEN "no" ELSE Aged
          /\ UNCHANGED <<conn, nextId, alive>>
     ELSE IF d.transport # 0
     THEN /\ disc' = [pc |-> "closeTransport", re |-> re]
          /\ mc' = d
          /\ afterDisconnect' = IF re THEN "no" ELSE Aged
          /\ UNCHANGED <<conn, nextId, alive>>
     ELSE DisconnectFinish(d, re)

\* the owner of the client may call reconnect() and disconnect() once
\* connectServer has stored it, which is when it calls connect(); after
\* disconnect() disconnectServer drops the client, so no call follows.
\* One such call runs at a time.
Owned == nextId > 1 /\ disc.pc = "idle" /\ afterDisconnect = "no"

\* disconnectServer: it unregisters the server's tools and calls disconnect()
Disconnect ==
  /\ Owned
  /\ DisconnectStart(mc, FALSE)
  /\ registeredTools' = unregisterServerTools(registeredTools, ServerName)
  /\ UNCHANGED <<ext, idLimit, health, invVars, toolStates, removedId, handles>>

\* the reconnect() call of reconnectServer
Reconnect ==
  /\ Owned
  /\ DisconnectStart([mc EXCEPT !.reconnectAttempts = 0, !.scheduled = 0], TRUE)
  /\ UNCHANGED <<ext, idLimit, health, invVars, regVars>>

\* client.close() settles
ClientClosed ==
  /\ disc.pc = "closeClient"
  /\ LET c == [mc EXCEPT !.client = 0]
     IN IF c.transport # 0
        THEN /\ disc' = [disc EXCEPT !.pc = "closeTransport"]
             /\ mc' = c
             /\ afterDisconnect' = Aged
             /\ UNCHANGED <<conn, nextId, alive>>
        ELSE DisconnectFinish(c, disc.re)
  /\ UNCHANGED <<ext, idLimit, health, invVars, regVars>>

\* transport.close() settles
TransportClosed ==
  /\ disc.pc = "closeTransport"
  /\ DisconnectFinish([mc EXCEPT !.transport = 0], disc.re)
  /\ UNCHANGED <<ext, idLimit, health, invVars, regVars>>

\* ------------------------------------------------------- specifications

InitClient(limit) ==
  /\ mc \in {NewClient(auto, ok) : auto \in BOOLEAN, ok \in BOOLEAN}
  /\ idLimit = limit
  /\ conn = [open |-> 0, list |-> 0, done |-> 0, cur |-> 0]
  /\ nextId = 1
  /\ alive = 0
  /\ disc = [pc |-> "idle", re |-> FALSE]
  /\ health = 0
  /\ afterDisconnect = "no"
  /\ inv = [pc |-> "idle", via |-> "direct", seen |-> FALSE]
  /\ token = FALSE
  /\ calls = 0
  /\ invoked = 0
  /\ lastResult = NoResult
  /\ toolStates = <<>>
  /\ registeredTools = <<>>
  /\ removedId = <<>>
  /\ handles = NoHandles

InitLife(limit) ==
  /\ InitClient(limit)
  /\ ext = NoExtension

Init == InitLife(MaxAttempts)

Next ==
  \/ Connect
  \/ Disconnect
  \/ Reconnect
  \/ TimerFire
  \/ ConnectOpened
  \/ ConnectOpenFailed
  \/ ToolsListed
  \/ ListFailed
  \/ TransportError
  \/ TransportClose
  \/ HealthTick
  \/ HealthOk
  \/ HealthFailed
  \/ ClientClosed
  \/ TransportClosed

Spec == Init /\ [][Next]_vars

\* ------------------------------------------------------------ invocation

\* the token object invokeTool is handed: the registered tool's handler
\* builds a new object from the host token's value at the call, a direct
\* caller passes the token itself
TokenArg(via, tok) == [live |-> via = "direct", seen |-> tok]

\* arg.isCancellationRequested, the host's token being tok at that moment
isCancellationRequested(arg, tok) == IF arg.live THEN tok ELSE arg.seen

\* an invokeTool that tests the client but not the status
invokeToolStartAnyStatus(c, cancelled) ==
  IF c.client = 0 THEN "NotConnected"
  ELSE IF cancelled THEN "Cancelled"
  ELSE "issue"

\* an invokeTool that does not look at the token before the call
invokeToolStartNoToken(c, cancelled) ==
  IF c.client = 0 \/ c.status # "Connected" THEN "NotConnected"
  ELSE "issue"

\* invokeTool() up to its await: what it throws, or "issue" for callTool
invokeToolStart(c, cancelled) ==
  IF c.client = 0 \/ c.status # "Connected" THEN "NotConnected"
  ELSE IF cancelled THEN "Cancelled"
  ELSE "issue"

\* invokeTool() after callTool resolved
invokeToolEnd(cancelled) == IF cancelled THEN "Cancelled" ELSE "Result"

\* a handler without the catch: every error goes on to the caller
OutcomeRethrow(via, what) ==
  IF what = "Result" THEN "returned" ELSE "thrown"

\* what the caller gets: invokeTool throws its errors, the registered tool's
\* handler turns them into an error payload it returns
Outcome(via, what) ==
  IF what = "Result" \/ via = "registry" THEN "returned" ELSE "thrown"

\* a tool invocation: by the host through the registered tool ("registry")
\* or by a caller of invokeTool ("direct"); pre: the token is already set
Invoke(via, pre) ==
  /\ inv.pc = "idle"
  /\ invoked < MaxInvokes
  /\ invoked' = invoked + 1
  /\ token' = pre
  /\ LET arg == TokenArg(via, pre)
         r == invokeToolStart(mc, isCancellationRequested(arg, pre))
         rec == [via |-> via, status |-> mc.status, hadClient |-> mc.client # 0,
                 pre |-> pre, late |-> FALSE]
     IN IF r = "issue"
        THEN /\ inv' = [pc |-> "call", via |-> via, seen |-> arg.seen]
             /\ calls' = calls + 1
             /\ lastResult' = rec @@ [what |-> "pending", how |-> "pending",
                                      issued |-> TRUE]
        ELSE /\ inv' = [pc |-> "idle", via |-> via, seen |-> arg.seen]
             /\ calls' = calls
             /\ lastResult' = rec @@ [what |-> r, how |-> Outcome(via, r),
                                      issued |-> FALSE]
  /\ afterDisconnect' = Aged
  /\ UNCHANGED <<ext, mc, conn, nextId, idLimit, alive, disc, health, regVars>>

\* the host sets its cancellation token while the call is in flight
CancelToken ==
  /\ inv.pc = "call"
  /\ ~token
  /\ token' = TRUE
  /\ afterDisconnect' = Aged
  /\ UNCHANGED <<ext, mc, conn, nextId, idLimit, alive, disc, health,
                 inv, calls, invoked, lastResult, regVars>>

\* callTool resolves; a cancellation seen now is thrown inside the try, and
\* the catch emits 'error' before it rethrows
CallResolved ==
  /\ inv.pc = "call"
  /\ LET arg == [live |-> inv.via = "direct", seen |-> inv.seen]
         what == invokeToolEnd(isCancellationRequested(arg, token))
     IN /\ lastResult' = [lastResult EXCEPT !.what = what,
                                            !.how = Outcome(inv.via, what),
                                            !.late = token]
        /\ mc' = IF what = "Result" THEN mc ELSE emitError(mc)
  /\ inv' = [inv EXCEPT !.pc = "idle"]
  /\ afterDisconnect' = Aged
  /\ UNCHANGED <<ext, conn, nextId, idLimit, alive, disc, health,
                 token, calls, invoked, regVars>>

\* a rejected callTool handled as a failure of the connection
CallRejectedAsError ==
  /\ inv.pc = "call"
  /\ lastResult' = [lastResult EXCEPT !.what = "CallFailed",
                                      !.how = Outcome(inv.via, "CallFailed"),
                                      !.late = token]
  /\ mc' = handleError(mc)
  /\ inv' = [inv EXCEPT !.pc = "idle"]
  /\ afterDisconnect' = Aged
  /\ UNCHANGED <<ext, conn, nextId, idLimit, alive, disc, health,
                 token, calls, invoked, regVars>>

\* callTool rejects: the catch emits 'error' and rethrows
CallRejected ==
  /\ inv.pc = "call"
  /\ lastResult' = [lastResult EXCEPT !.what = "CallFailed",
                                      !.how = Outcome(inv.via, "CallFailed"),
                                      !.late = token]
  /\ mc' = emitError(mc)
  /\ inv' = [inv EXCEPT !.pc = "idle"]
  /\ afterDisconnect' = Aged
  /\ UNCHANGED <<ext, conn, nextId, idLimit, alive, disc, health,
                 token, calls, invoked, regVars>>

InitInvoke == InitLife(InvokeAttempts)

NextInvoke ==
  \/ Connect
  \/ Disconnect
  \/ Reconnect
  \/ TimerFire
  \/ ConnectOpened
  \/ ConnectOpenFailed
  \/ ToolsListed
  \/ ListFailed
  \/ TransportError
  \/ TransportClose
  \/ HealthTick
  \/ HealthOk
  \/ HealthFailed
  \/ ClientClosed
  \/ TransportClosed
  \/ \E via \in {"direct", "registry"}, pre \in BOOLEAN : Invoke(via, pre)
  \/ CancelToken
  \/ CallResolved
  \/ CallRejected

SpecInvoke == InitInvoke /\ [][NextInvoke]_vars

\* ------------------------------------------------------------ Scenario A
\* auto-reconnect on, every connect attempt fails (no listTools() ever
\* resolves), and the user reconnects by hand only once the connection has
\* come to rest in Error

AtRest == mc.status = "Error" /\ mc.timeouts = 0 /\ InFlight = 0

InitScenarioA ==
  /\ InitLife(ScenarioAttempts)
  /\ mc.autoReconnect

ReconnectAtRest == AtRest /\ Reconnect

NextScenarioA ==
  \/ Connect
  \/ TimerFire
  \/ ConnectOpened
  \/ ConnectOpenFailed
  \/ ListFailed
  \/ TransportError
  \/ TransportClose
  \/ ReconnectAtRest
  \/ ClientClosed
  \/ TransportClosed

SpecScenarioA == InitScenarioA /\ [][NextScenarioA]_vars

\* ------------------------------------------------- tool registry actions

\* the toolStates setting is written: ConfigManager.setToolState with any
\* state, or the user editing the setting
SetToolState(serverName, toolName, state) ==
  /\ toolStates' = setToolState(toolStates, serverName, toolName, state)
  /\ removedId' = Without(removedId, fullToolKey(serverName, toolName))
  /\ UNCHANGED handles
  /\ UNCHANGED <<ext, lifeVars, invVars, registeredTools>>

\* the panel's tool checkbox is ticked or unticked: it posts setToolState
\* with state { enabled }, and the handler writes the state and reloads the
\* server, which first unregisters the server's tools; the tools come back
\* with the next registerServerTools
ToggleTool(serverName, toolName, enabled) ==
  LET key == fullToolKey(serverName, toolName)
  IN /\ toolStates' = setToolState(toolStates, serverName, toolName,
                                    [enabled |-> enabled, customName |-> <<>>])
     /\ registeredTools' = unregisterServerTools(registeredTools, serverName)
     /\ removedId' = IF ~enabled /\ key \in DOMAIN registeredTools
                     THEN [k \in DOMAIN removedId \cup {key} |->
                             IF k = key THEN registeredTools[key] ELSE removedId[k]]
                     ELSE removedId
     /\ UNCHANGED handles
     /\ UNCHANGED <<ext, lifeVars, invVars>>

\* ToolRegistry.registerServerTools, called when the server's client has
\* discovered its tools; the host answers each registration as it likes
RegisterServerTools(serverName, tools, accepts) ==
  /\ registeredTools' = registerEach(registeredTools, toolStates, serverName,
                                     tools, accepts)
  /\ removedId' = [k \in DOMAIN removedId \ DOMAIN registeredTools' |-> removedId[k]]
  /\ UNCHANGED handles
  /\ UNCHANGED <<ext, lifeVars, invVars, toolStates>>

\* ToolRegistry.unregisterServerTools
UnregisterServerTools(serverName) ==
  /\ registeredTools' = unregisterServerTools(registeredTools, serverName)
  /\ UNCHANGED <<ext, lifeVars, invVars, toolStates, removedId, handles>>

\* ToolRegistry.unregisterAllTools
UnregisterAllTools ==
  /\ registeredTools' = <<>>
  /\ UNCHANGED <<ext, lifeVars, invVars, toolStates, removedId, handles>>

InitRegistry ==
  /\ InitLife(InvokeAttempts)
  /\ mc = NewClient(TRUE, TRUE)

NextRegistry ==
  \/ \E s \in ServerNames, t \in ToolNames, st \in ToolStates : SetToolState(s, t, st)
  \/ \E s \in ServerNames, t \in ToolNames, e \in BOOLEAN : ToggleTool(s, t, e)
  \/ \E s \in ServerNames, l \in ToolLists :
       \E accepts \in [1..Len(l) -> BOOLEAN] : RegisterServerTools(s, l, accepts)
  \/ \E s \in ServerNames : UnregisterServerTools(s)
  \/ UnregisterAllTools

SpecRegistry == InitRegistry /\ [][NextRegistry]_vars

\* server names as the configuration admits them: addServer and the input
\* box only ask for a name that is not empty and not taken, so a name may
\* hold the separator of the registry's keys
OwnerNames == ServerNames \cup { <<"a", ":", "b">> }

\* the panel's checkbox of a tool writes its state { enabled }
CheckTool(serverName, toolName, enabled) ==
  SetToolState(serverName, toolName, [enabled |-> enabled, customName |-> <<>>])

\* the tools of servers of any names are registered and unregistered
NextOwners ==
  \/ \E s \in OwnerNames, t \in ToolNames, e \in BOOLEAN : CheckTool(s, t, e)
  \/ \E s \in OwnerNames, l \in ToolLists :
       \E accepts \in [1..Len(l) -> BOOLEAN] : RegisterServerTools(s, l, accepts)
  \/ \E s \in OwnerNames : UnregisterServerTools(s)

SpecOwners == InitRegistry /\ [][NextOwners]_vars

\* --------------------------------------------------------- the extension
\* MCPRelayExtension: the servers setting, the clients map, the MCPClient
\* objects it has constructed (those it has dropped from the map included,
\* their handlers still run) and its async calls in flight. An async call is
\* the sequence of operations it still has to run, the first one being what
\* it awaits.

\* the servers setting: arrays of server configs with distinct names
ServerLists ==
  { l \in UNION { [1..n -> ServerNames] : n \in 0..Cardinality(ServerNames) } :
      \A i, j \in 1..Len(l) : i # j => l[i] # l[j] }

\* servers.some(s => s.name === name)
hasServer(servers, name) == \E i \in 1..Len(servers) : servers[i] = name

\* a duplicate test that never finds one
nameTakenNever(servers, name) == FALSE

\* ConfigManager.addServer: its test for a duplicate name
nameTaken(servers, name) == hasServer(servers, name)

\* servers.filter(s => s.name !== name)
withoutServer(servers, name) == SelectSeq(servers, LAMBDA s : s # name)

\* an operation of an async call: on the server name, on the object obj;
\* list: the servers array that saveServers is writing
Op(op, name, obj) == [op |-> op, name |-> name, obj |-> obj, list |-> <<>>]

\* a removeServer handler that discards the configuration first
removeServerConfigFirst(name) ==
  << Op("cfgRemove", name, 0), Op("cfgCleanup", name, 0), Op("disconnect", name, 0),
     Op("doneRemove", name, 0) >>

\* the 'removeServer' handler: disconnectServer, configManager.removeServer
\* (saveServers, then cleanupToolStates), the message of success
removeServerOps(name) ==
  << Op("disconnect", name, 0), Op("cfgRemove", name, 0), Op("cfgCleanup", name, 0),
     Op("doneRemove", name, 0) >>

\* the 'addServer' handler: configManager.addServer, connectServer, the
\* message of success
addServerOps(name) ==
  << Op("cfgAdd", name, 0), Op("connect", name, 0), Op("doneAdd", name, 0) >>

\* reloadServers, as onConfigChange's callback calls it, and its return
reloadOps == << Op("reload", <<>>, 0), Op("doneReload", <<>>, 0) >>

\* the request, or the reload, that the last operation of a call belongs to
RequestOf(o) ==
  CASE o.op = "doneAdd" -> "addServer"
    [] o.op = "doneReload" -> "reloadServers"
    [] o.op = "doneConnect" -> "connectServer"
    [] OTHER -> "removeServer"

IsDone(o) == o.op \in {"doneAdd", "doneRemove", "doneReload", "doneConnect"}

\* awaitTick: an await of a promise that is already settled, or the return
\* of an async function to the call that awaits it; the call goes on when
\* the jobs queued before it have run
IsAwait(o) ==
  o.op \in {"awaitDisconnect", "awaitConnect", "awaitUpdate", "awaitCleanup",
            "awaitResume", "awaitTick"}

\* the name of the j-th tool of a server's answer to tools/list
toolNamed(j) == [x \in 1..j |-> "c"]

\* connect() on the object c up to its first await
connectBegin(c) ==
  IF c.status \in {"Connected", "Connecting"} THEN c
  ELSE IF ~c.configOk THEN handleError(setStatus(c, "Connecting"))
  ELSE [setStatus(c, "Connecting") EXCEPT !.transport = 1, !.client = 1]

\* new MCPClient(serverConfig, autoReconnect, reconnectDelay) with the
\* handlers of connectServer, which hold serverName, and client.connect()
\* called; first: that connect() call is "pending" or "done"; pend: the
\* timer-fired connect() calls pending; err: as history, the error of the
\* last 'error' event the object emitted
newClient(name, auto) ==
  connectBegin(NewClient(auto, TRUE)
                 @@ [name |-> name, first |-> "pending", pend |-> 0, err |-> "none"])

\* an error in every object at once
onErrorAll(objs, i) == [j \in DOMAIN objs |-> handleError(objs[j])]

\* handleError runs on the object i
onError(objs, i) == [objs EXCEPT ![i] = handleError(@)]

\* handleError(error) on the object i, the error being the one that connect()
\* caught ("connect"), that the transport reported ("transport") or that
\* the health check's listTools() threw ("health"): emit('error', error)
handleErrorOf(objs, i, error) == [onError(objs, i) EXCEPT ![i].err = error]

\* Array.from(this.clients.keys()): the names in the order of their objects
clientKeys(clients) ==
  CHOOSE l \in ServerLists :
    /\ { l[i] : i \in 1..Len(l) } = DOMAIN clients
    /\ \A i, j \in 1..Len(l) : i < j => clients[l[i]] < clients[l[j]]

\* an error thrown in an async call: a webview handler catches it and shows
\* it, reloadServers rejects with it, any other call ends with it
thrown(st, ops, err) ==
  LET last == ops[Len(ops)]
  IN [st |-> IF IsDone(last)
             THEN [st EXCEPT !.lastOp = [op |-> RequestOf(last), name |-> last.name,
                                         result |-> err]]
             ELSE st,
      ops |-> <<>>]

\* runs the operations ops on the extension state st up to the next await
RECURSIVE advance(_, _)
advance(st, ops) ==
  IF ops = <<>> THEN [st |-> st, ops |-> ops]
  ELSE LET o == Head(ops)
           rest == Tail(ops)
       IN CASE IsAwait(o) -> [st |-> st, ops |-> ops]
            \* disconnectServer up to await client.disconnect()
            [] o.op = "disconnect" ->
                 IF o.name \in DOMAIN st.clients
                 THEN LET i == st.clients[o.name]
                      IN [st |-> [st EXCEPT !.reg = unregisterServerTools(@, o.name),
                                            !.objs[i] = disconnectStart(@)],
                          ops |-> <<Op("awaitDisconnect", o.name, i)>> \o rest]
                 ELSE advance(st, rest)
            \* connectServer up to its disconnectServer
            [] o.op = "connect" ->
                 IF ~hasServer(st.servers, o.name)
                 THEN thrown(st, ops, "NotFound")
                 ELSE advance(st, <<Op("disconnect", o.name, 0),
                                    Op("create", o.name, 0)>> \o rest)
            \* connectServer from new MCPClient to await client.connect()
            [] o.op = "create" ->
                 IF Len(st.objs) >= MaxObjs
                 THEN [st |-> [st EXCEPT !.stuck = TRUE], ops |-> ops]
                 ELSE LET i == Len(st.objs) + 1
                      IN [st |-> [st EXCEPT
                                    !.objs = Append(@, newClient(o.name, st.auto)),
                                    !.clients = [k \in DOMAIN @ \cup {o.name} |->
                                                   IF k = o.name THEN i ELSE @[k]]],
                          ops |-> <<Op("awaitConnect", o.name, i)>> \o rest]
            \* reloadServers up to its first disconnectServer
            [] o.op = "reload" ->
                 LET keys == clientKeys(st.clients)
                 IN advance(st, [j \in 1..Len(keys) |-> Op("disconnect", keys[j], 0)]
                                  \o <<Op("initialize", <<>>, 0)>> \o rest)
            \* initializeServers
            [] o.op = "initialize" ->
                 advance(st, [j \in 1..Len(st.servers) |-> Op("connect", st.servers[j], 0)]
                                \o rest)
            \* ConfigManager.addServer up to await saveServers
            [] o.op = "cfgAdd" ->
                 IF nameTaken(st.servers, o.name)
                 THEN thrown(st, ops, "DuplicateName")
                 ELSE [st |-> st,
                       ops |-> <<[Op("awaitUpdate", o.name, 0) EXCEPT
                                    !.list = Append(st.servers, o.name)]>> \o rest]
            \* ConfigManager.removeServer up to await saveServers
            [] o.op = "cfgRemove" ->
                 IF ~hasServer(st.servers, o.name)
                 THEN thrown(st, ops, "NotFound")
                 ELSE [st |-> st,
                       ops |-> <<[Op("awaitUpdate", o.name, 0) EXCEPT
                                    !.list = withoutServer(st.servers, o.name)]>> \o rest]
            \* cleanupToolStates up to await config.update
            [] o.op = "cfgCleanup" ->
                 [st |-> st, ops |-> <<Op("awaitCleanup", o.name, 0)>> \o rest]
            \* registerTool(serverName, tool, client) for the tool number
            \* o.obj of the batch, the host accepting the registration
            [] o.op = "register" ->
                 advance([st EXCEPT !.reg = registerTool(@, st.states, o.name,
                                                         toolNamed(o.obj), TRUE)],
                         rest)
            \* connect() after await this.discoverTools()
            [] o.op = "connected" ->
                 advance([st EXCEPT !.objs[o.obj] = connected([@ EXCEPT !.first = "done"])],
                         rest)
            \* the handler's message of success; reloadServers returns
            [] OTHER ->
                 advance([st EXCEPT !.lastOp = [op |-> RequestOf(o), name |-> o.name,
                                                result |-> "ok"]], rest)

\* the extension state the operations work on
St ==
  [servers |-> ext.servers, objs |-> ext.objs, clients |-> ext.clients,
   auto |-> ext.auto, lastOp |-> ext.lastOp, reg |-> registeredTools,
   states |-> toolStates, stuck |-> FALSE, edits |-> ext.edits]

\* the calls in flight without call k
others(k) == SelectSeq([j \in 1..Len(ext.tasks) |-> IF j = k THEN <<>> ELSE ext.tasks[j]],
                       LAMBDA t : t # <<>>)

\* a call runs from state st0 with operations ops0 up to its next await,
\* tasks being the other calls in flight
ExtStep(st0, ops0, tasks, reqs) ==
  LET r == advance(st0, ops0)
  IN /\ ~r.st.stuck
     /\ ext' = [ext EXCEPT !.servers = r.st.servers, !.objs = r.st.objs,
                           !.clients = r.st.clients, !.lastOp = r.st.lastOp,
                           !.tasks = IF r.ops = <<>> THEN tasks ELSE Append(tasks, r.ops),
                           !.reqs = @ + reqs, !.edits = r.st.edits]
     /\ registeredTools' = r.st.reg
     /\ toolStates' = r.st.states
     /\ UNCHANGED <<lifeVars, invVars, removedId, handles>>

\* the panel posts 'addServer'
AddServer(name) ==
  /\ ext.reqs < MaxReqs
  /\ ExtStep(St, addServerOps(name), ext.tasks, 1)

\* the panel posts 'removeServer'
RemoveServer(name) ==
  /\ ext.reqs < MaxReqs
  /\ ExtStep(St, removeServerOps(name), ext.tasks, 1)

\* the user edits the servers setting: onConfigChange's callback calls
\* reloadServers
ConfigEdited(servers) ==
  /\ ext.edits < MaxEdits
  /\ servers # ext.servers
  /\ ExtStep([St EXCEPT !.servers = servers, !.edits = @ + 1], reloadOps, ext.tasks, 0)

\* the toolStates setting without the states of the server name
cleanedStates(states, name) == [p \in { q \in DOMAIN states : q[1] # name } |-> states[p]]

\* what call k awaits settles and the call runs up to its next await:
\* client.disconnect() returns (the object is closed and disconnectServer
\* deletes the name from the map); client.connect() has returned or thrown;
\* a config.update takes effect (the setting changes and onConfigChange's
\* callback calls reloadServers, the update's promise resolving after that)
\* or its promise resolves.
TaskStep(k) ==
  LET o == Head(ext.tasks[k])
      rest == Tail(ext.tasks[k])
      resume == <<Op("awaitResume", o.name, 0)>> \o rest
  IN CASE o.op = "awaitDisconnect" ->
            ExtStep([St EXCEPT
                       !.objs[o.obj] = disconnectEnd([@ EXCEPT !.client = 0,
                                                               !.transport = 0]),
                       !.clients = Without(@, o.name)],
                    rest, others(k), 0)
       [] o.op = "awaitConnect" ->
            /\ ext.objs[o.obj].first = "done"
            /\ ExtStep(St, rest, others(k), 0)
       [] o.op = "awaitUpdate" ->
            ExtStep([St EXCEPT !.servers = o.list], reloadOps,
                    Append(others(k), resume), 0)
       [] o.op = "awaitCleanup" ->
            IF cleanedStates(toolStates, o.name) = toolStates
            THEN ExtStep(St, rest, others(k), 0)
            ELSE ExtStep([St EXCEPT !.states = cleanedStates(@, o.name)], reloadOps,
                         Append(others(k), resume), 0)
       [] o.op = "awaitResume" ->
            ExtStep(St, rest, others(k), 0)

\* a step of one object alone
ObjStep(objs) ==
  /\ ext' = [ext EXCEPT !.objs = objs]
  /\ UNCHANGED <<lifeVars, invVars, toolStates, removedId, handles>>

\* the object i after one of its connect() calls has settled: the one
\* connectServer awaits (first) or a timer-fired one
settled(c, first) ==
  IF first THEN [c EXCEPT !.first = "done"] ELSE [c EXCEPT !.pend = @ - 1]

Settles(i, first) ==
  IF first THEN ext.objs[i].first = "pending" ELSE ext.objs[i].pend > 0

\* a connect() call of object i gets its tools: discoverTools stores them,
\* the toolsDiscovered handler registers them under the object's server name
\* (the host answers each registration as it likes) and connect() runs to
\* its end; with the client gone discoverTools throws instead
AttemptConnected(i, first) ==
  /\ Settles(i, first)
  /\ LET c == settled(ext.objs[i], first)
         objs == [ext.objs EXCEPT ![i] = c]
     IN IF c.client # 0
        THEN /\ ObjStep([objs EXCEPT ![i] = connected([@ EXCEPT !.discoveredTools = ServerTools])])
             /\ \E accepts \in [1..Len(ServerTools) -> BOOLEAN] :
                  registeredTools' = registerEach(registeredTools, toolStates,
                                                  c.name, ServerTools, accepts)
        ELSE /\ ObjStep(handleErrorOf(objs, i, "connect"))
             /\ UNCHANGED registeredTools

\* a connect() call of object i fails
AttemptFailed(i, first) ==
  /\ Settles(i, first)
  /\ ObjStep(handleErrorOf([ext.objs EXCEPT ![i] = settled(@, first)], i, "connect"))
  /\ UNCHANGED registeredTools

\* the reconnect timer of object i fires
ObjTimerFire(i) ==
  LET c == [ext.objs[i] EXCEPT !.timeouts = @ - 1, !.reconnectTimer = FALSE]
      d == connectBegin(c)
  IN /\ ext.objs[i].timeouts > 0
     /\ d # c => c.pend < MaxPend
     /\ ObjStep([ext.objs EXCEPT ![i] = IF d # c THEN [d EXCEPT !.pend = @ + 1] ELSE c])
     /\ UNCHANGED registeredTools

\* transport.onerror of object i
ObjTransportError(i) ==
  /\ ext.objs[i].transport # 0
  /\ ObjStep(handleErrorOf(ext.objs, i, "transport"))
  /\ UNCHANGED registeredTools

\* a failing round trip that sets Error and leaves the reconnect alone
ObjHealthFailedQuiet(i) ==
  /\ ext.objs[i].intervals > 0
  /\ ext.objs[i].status = "Connected" /\ ext.objs[i].client # 0
  /\ ObjStep([ext.objs EXCEPT ![i] = [setStatus(@, "Error") EXCEPT !.err = "health"]])
  /\ UNCHANGED registeredTools

\* the health check of object i ticks and its round trip fails
ObjHealthFailed(i) ==
  /\ ext.objs[i].intervals > 0
  /\ ext.objs[i].status = "Connected" /\ ext.objs[i].client # 0
  /\ ObjStep(handleErrorOf(ext.objs, i, "health"))
  /\ UNCHANGED registeredTools

\* activate() has run up to the first await of its initializeServers(): the
\* setting holds any list of servers, onConfigChange is subscribed and the
\* first configured server is being connected; auto: the autoReconnect
\* setting
Activate(auto) ==
  /\ InitClient(0)
  /\ mc = NewClient(TRUE, TRUE)
  /\ \E servers \in ServerLists :
       LET r == advance([servers |-> servers, objs |-> <<>>, clients |-> <<>>,
                         auto |-> auto, lastOp |-> NoExtension.lastOp,
                         reg |-> <<>>, states |-> <<>>, stuck |-> FALSE,
                         edits |-> 0],
                        << Op("initialize", <<>>, 0) >>)
       IN ext = [NoExtension EXCEPT !.servers = servers, !.auto = auto,
                                    !.objs = r.st.objs, !.clients = r.st.clients,
                                    !.tasks = IF r.ops = <<>> THEN <<>> ELSE <<r.ops>>]

\* the servers are managed from the panel and by editing the setting, with
\* autoReconnect off
InitServers == Activate(FALSE)

NextServers ==
  \/ \E name \in ServerNames : AddServer(name)
  \/ \E name \in ServerNames : RemoveServer(name)
  \/ \E servers \in ServerLists : ConfigEdited(servers)
  \/ \E k \in 1..Len(ext.tasks) : TaskStep(k)
  \/ \E i \in 1..Len(ext.objs) : AttemptConnected(i, TRUE)
  \/ \E i \in 1..Len(ext.objs) : AttemptFailed(i, TRUE)

SpecServers == InitServers /\ [][NextServers]_vars

\* the configured servers are connected at activation and their connections
\* fail in every way, with autoReconnect on or off
InitFailures == \E auto \in BOOLEAN : Activate(auto)

NextFailures ==
  \/ \E k \in 1..Len(ext.tasks) : TaskStep(k)
  \/ \E i \in 1..Len(ext.objs), first \in BOOLEAN : AttemptConnected(i, first)
  \/ \E i \in 1..Len(ext.objs), first \in BOOLEAN : AttemptFailed(i, first)
  \/ \E i \in 1..Len(ext.objs) : ObjTimerFire(i)
  \/ \E i \in 1..Len(ext.objs) : ObjTransportError(i)
  \/ \E i \in 1..Len(ext.objs) : ObjHealthFailed(i)

SpecFailures == InitFailures /\ [][NextFailures]_vars

\* ------------------------------------------------------------- liveness
\* auto-reconnect on, nobody calls disconnect() or reconnect(). A timer that
\* is pending fires, and a request that is pending on a transport is
\* answered or fails. The environment fails only while the run has a connect
\* attempt left for every reconnect that is or gets scheduled.

MayFail == nextId + mc.timeouts <= idLimit

OpenSettles == ConnectOpened \/ (MayFail /\ ConnectOpenFailed)
ListingSettles == ToolsListed \/ (MayFail /\ ListFailed)
HealthSettles == HealthOk \/ (MayFail /\ HealthFailed)
TransportFails == MayFail /\ (TransportError \/ TransportClose)

InitLive ==
  /\ InitLife(LiveAttempts)
  /\ mc.autoReconnect

NextLive ==
  \/ Connect
  \/ TimerFire
  \/ OpenSettles
  \/ ListingSettles
  \/ HealthTick
  \/ HealthSettles
  \/ TransportFails

SpecLive ==
  /\ InitLive /\ [][NextLive]_vars
  /\ WF_vars(Connect) /\ WF_vars(TimerFire)
  /\ WF_vars(OpenSettles) /\ WF_vars(ListingSettles) /\ WF_vars(HealthSettles)

\* ---------------------------------------------------- the disposables
\* the registry with the disposables it holds: tools are registered and
\* registered again, unregistered by server, and the registry is disposed;
\* every tool is enabled

\* how many disposables registerServerTools obtains for the tools
Obtained(states, serverName, tools, accepts) ==
  Cardinality({ j \in 1..Len(tools) :
                  getToolState(states, serverName, tools[j]).enabled /\ accepts[j] })

RegisterHandles(serverName, tools, accepts) ==
  /\ Len(handles.disposed) + Obtained(toolStates, serverName, tools, accepts) <= MaxHandles
  /\ registeredTools' = registerEach(registeredTools, toolStates, serverName,
                                     tools, accepts)
  /\ handles' = registerEachOf(handles, toolStates, serverName, tools, accepts)
  /\ UNCHANGED <<ext, lifeVars, invVars, toolStates, removedId>>

UnregisterHandles(serverName) ==
  /\ registeredTools' = unregisterServerTools(registeredTools, serverName)
  /\ handles' = unregisterServerToolsOf(handles, serverName)
  /\ UNCHANGED <<ext, lifeVars, invVars, toolStates, removedId>>

\* ToolRegistry.dispose
DisposeRegistry ==
  /\ registeredTools' = <<>>
  /\ handles' = unregisterAllToolsOf(handles)
  /\ UNCHANGED <<ext, lifeVars, invVars, toolStates, removedId>>

NextHandles ==
  \/ \E s \in OwnerNames, l \in ToolLists :
       \E accepts \in [1..Len(l) -> BOOLEAN] : RegisterHandles(s, l, accepts)
  \/ \E s \in OwnerNames : UnregisterHandles(s)
  \/ DisposeRegistry

SpecHandles == InitRegistry /\ [][NextHandles]_vars

\* ------------------------------------------------- the order of the jobs
\* registerServerTools awaits registerTool for every tool, and an await of a
\* settled promise queues the rest of the call as a job behind the jobs
\* already queued. The calls whose first operation is awaitTick are the job
\* queue, in the order of ext.tasks; the panel's messages and the
\* transports' answers are handled when the queue is empty.

\* the 'connectServer' handler: connectServer, the message of success
connectServerOps(name) == << Op("connect", name, 0), Op("doneConnect", name, 0) >>

\* the toolsDiscovered handler: the loop of registerServerTools over
\* tools j..n, each registerTool awaited
RECURSIVE batchOps(_, _, _)
batchOps(name, j, n) ==
  IF j > n THEN <<>>
  ELSE << Op("register", name, j), Op("awaitTick", name, 0) >> \o batchOps(name, j + 1, n)

\* the tools the server reports
BatchList == [j \in 1..BatchTools |-> toolNamed(j)]

Ready == { k \in 1..Len(ext.tasks) : Head(ext.tasks[k]).op = "awaitTick" }

\* the first job of the queue runs up to its next await
Tick ==
  /\ Ready # {}
  /\ LET k == CHOOSE x \in Ready : \A y \in Ready : x <= y
     IN ExtStep(St, Tail(ext.tasks[k]), others(k), 0)

\* the panel posts 'connectServer'
ConnectRequested(name) ==
  /\ Ready = {}
  /\ ext.reqs < MaxReqs
  /\ ExtStep(St, connectServerOps(name), ext.tasks, 1)

\* listTools() of the connect() call that call k awaits resolves:
\* discoverTools stores the tools and emits toolsDiscovered, whose handler
\* runs registerServerTools up to its first await; discoverTools then
\* returns to connect(), connect() to connectServer and connectServer to
\* its caller, each as a job of its own
ToolsArrive(k) ==
  LET o == Head(ext.tasks[k])
      i == o.obj
  IN /\ Ready = {}
     /\ o.op = "awaitConnect"
     /\ ext.objs[i].first = "pending" /\ ext.objs[i].client # 0
     /\ LET st0 == [St EXCEPT !.objs[i].discoveredTools = BatchList]
            r == advance(st0, batchOps(ext.objs[i].name, 1, BatchTools))
            call == << Op("awaitTick", o.name, i), Op("connected", o.name, i),
                       Op("awaitTick", o.name, i), Op("awaitTick", o.name, i) >>
                    \o Tail(ext.tasks[k])
        IN /\ ext' = [ext EXCEPT !.objs = r.st.objs,
                                 !.tasks = Append(Append(others(k), r.ops), call)]
           /\ registeredTools' = r.st.reg
           /\ UNCHANGED <<lifeVars, invVars, toolStates, removedId, handles>>

\* client.disconnect() returns to the disconnectServer that call k runs
Disconnected(k) ==
  /\ Ready = {}
  /\ Head(ext.tasks[k]).op = "awaitDisconnect"
  /\ TaskStep(k)

NextBatch ==
  \/ Tick
  \/ \E name \in ServerNames : ConnectRequested(name)
  \/ \E k \in 1..Len(ext.tasks) : ToolsArrive(k)
  \/ \E k \in 1..Len(ext.tasks) : Disconnected(k)

SpecBatch == InitServers /\ [][NextBatch]_vars

\* ----------------------------------------------------------------- claims

\* C1: when a call to disconnect() returns, the state is Disconnected and
\* neither the reconnect timer nor the health-check interval is pending,
\* whatever arrived while disconnect() was awaiting the close.
DisconnectLeavesNothingPending ==
  afterDisconnect = "just" =>
    /\ mc.status = "Disconnected"
    /\ ~mc.reconnectTimer /\ mc.timeouts = 0
    /\ ~mc.healthCheckInterval /\ mc.intervals = 0

\* C2: after disconnect() has returned, no reconnect timer and no
\* health-check tick fires, no connect attempt is started and the state stays
\* Disconnected, even if answers to earlier operations arrive later.
QuietAfterDisconnect ==
  [][afterDisconnect # "no" =>
       /\ mc'.status = "Disconnected"
       /\ ~TimerFire
       /\ ~HealthTick
       /\ nextId' = nextId]_vars

\* C3: the reconnect timer and the health-check interval are never both
\* active.
TimersExclusive ==
  /\ ~(mc.reconnectTimer /\ mc.healthCheckInterval)
  /\ ~(mc.timeouts > 0 /\ mc.intervals > 0)

\* C4 as stated: once the 3rd connect attempt has failed, the state is Error
\* and no automatic attempt is scheduled.
ScenarioAThirdFailureIsLast ==
  (Done = 3 /\ nextId = 4 /\ InFlight = 0) =>
    (mc.status = "Error" /\ mc.timeouts = 0 /\ ~mc.reconnectTimer)

\* C4 as amended: the first attempt and maxReconnectAttempts automatic
\* retries are made; once that 4th attempt has failed the state is Error and
\* no automatic attempt is scheduled, and the connect() of a manual
\* reconnect() then begins one more attempt.
ScenarioABudget ==
  /\ [](((Done = MaxReconnectAttempts + 1 /\ nextId = MaxReconnectAttempts + 2
           /\ InFlight = 0 /\ disc.pc = "idle")
          => (mc.status = "Error" /\ mc.timeouts = 0 /\ ~mc.reconnectTimer)))
  /\ [][(disc.re /\ disc'.pc = "idle") =>
          (nextId' = nextId + 1 /\ InFlight' > 0)]_vars

\* C4 witness: all four automatic attempts failed, the connection rested,
\* and the manual reconnect() made the 5th attempt.
ScenarioAManualAttemptMade ==
  /\ nextId > MaxReconnectAttempts + 2
  /\ Done >= MaxReconnectAttempts + 1

\* C5: between successful connections and manual reconnect() calls at most
\* maxReconnectAttempts automatic reconnects are scheduled; once they are used
\* up and the last attempt is over, the connection rests in Error with no
\* reconnect timer pending.
AutoReconnectBudget ==
  /\ mc.scheduled <= MaxReconnectAttempts
  /\ (mc.scheduled = MaxReconnectAttempts /\ mc.timeouts = 0 /\ InFlight = 0
        /\ disc.pc = "idle" /\ afterDisconnect = "no")
       => (mc.status = "Error" /\ ~mc.reconnectTimer)

\* C5 witness: a valid configuration has used up its budget: three timers
\* were scheduled and have fired, and every attempt is over.
BudgetExhausted ==
  /\ mc.configOk
  /\ mc.scheduled = MaxReconnectAttempts /\ mc.timeouts = 0 /\ InFlight = 0
  /\ disc.pc = "idle" /\ afterDisconnect = "no"
  /\ Done = MaxReconnectAttempts + 1

\* C6: when the connect() issued by reconnect() begins, the reconnect-attempt
\* counter is 0.
ReconnectConnectsFromZero ==
  [][(disc.re /\ disc'.pc = "idle") => mc.reconnectAttempts = 0]_vars

\* C7: invokeTool on a connection whose state is not Connected fails with the
\* not-connected error and issues no call on the transport.
NotConnectedFailsFast ==
  [][(invoked' # invoked /\ mc.status # "Connected") =>
       /\ lastResult'.what = "NotConnected"
       /\ calls' = calls
       /\ inv'.pc = "idle"]_vars

\* C7 witness: an invocation in state Error, the client object still there,
\* was refused.
RefusedInError ==
  /\ lastResult.status = "Error" /\ lastResult.hadClient
  /\ lastResult.what = "NotConnected"

\* C8 as stated: an invocation on a connection in state Connected with the
\* token already set ends Cancelled, and callTool is not issued.
CancelledBeforeCall ==
  [][(invoked' # invoked /\ mc.status = "Connected" /\ token') =>
       /\ lastResult'.what = "Cancelled"
       /\ calls' = calls
       /\ inv'.pc = "idle"]_vars

\* C8 as amended: an invocation on a connection in state Connected whose
\* client has not been released by a disconnect() in progress, with the token
\* already set, ends Cancelled, and callTool is not issued.
CancelledBeforeCallWithClient ==
  [][(invoked' # invoked /\ mc.status = "Connected" /\ mc.client # 0 /\ token') =>
       /\ lastResult'.what = "Cancelled"
       /\ calls' = calls
       /\ inv'.pc = "idle"]_vars

\* C8 witness: the host invoked the registered tool with its token set, on
\* a Connected connection, and got the cancellation back.
HostCallCancelledAtOnce ==
  /\ lastResult.via = "registry" /\ lastResult.status = "Connected"
  /\ lastResult.hadClient /\ lastResult.pre /\ lastResult.what = "Cancelled" /\ lastResult.how = "returned"

\* C9: a host invocation through the registered tool whose token is set
\* after the call was issued and before callTool resolves ends Cancelled.
LateCancelDiscardsResult ==
  (lastResult.via = "registry" /\ lastResult.issued /\ ~lastResult.pre
     /\ lastResult.late /\ lastResult.what \in {"Result", "Cancelled"})
    => lastResult.what = "Cancelled"

\* C10: the ids under which the currently registered tools were registered
\* with the host are pairwise distinct.
HostIdsDistinct ==
  \A k1, k2 \in DOMAIN registeredTools :
    k1 # k2 => registeredTools[k1] # registeredTools[k2]

\* the id a tool gets when no custom name is configured
DefaultId(serverName, toolName) ==
  toolId(serverName, toolName, getToolState(<<>>, serverName, toolName))

\* C11: when a tool without a custom name is registered while another server
\* has a tool of the same name registered under its default id, the new entry
\* gets the tool name qualified by its own server, the other entry stays
\* registered, and the two ids differ.
SameNameToolsCoexist ==
  [][\A s1 \in ServerNames, s2 \in ServerNames, t \in ToolNames :
       (/\ s1 # s2
        /\ fullToolKey(s1, t) \notin DOMAIN registeredTools
        /\ fullToolKey(s1, t) \in DOMAIN registeredTools'
        /\ getToolState(toolStates, s1, t).customName = <<>>
        /\ fullToolKey(s2, t) \in DOMAIN registeredTools
        /\ registeredTools[fullToolKey(s2, t)] = DefaultId(s2, t))
       => (/\ registeredTools'[fullToolKey(s1, t)] = s1 \o <<"_", "_">> \o t
           /\ fullToolKey(s2, t) \in DOMAIN registeredTools'
           /\ registeredTools'[fullToolKey(s2, t)] = s2 \o <<"_", "_">> \o t
           /\ registeredTools'[fullToolKey(s1, t)]
                # registeredTools'[fullToolKey(s2, t)])]_vars

\* C11 witness: both servers have their tool "c" registered, each under its
\* own qualified name.
BothSearchToolsRegistered ==
  /\ fullToolKey(<<"a">>, <<"c">>) \in DOMAIN registeredTools
  /\ fullToolKey(<<"a", "_", "_", "b">>, <<"c">>) \in DOMAIN registeredTools
  /\ registeredTools[fullToolKey(<<"a">>, <<"c">>)] = <<"a", "_", "_", "c">>
  /\ registeredTools[fullToolKey(<<"a", "_", "_", "b">>, <<"c">>)]
       = <<"a", "_", "_", "b", "_", "_", "c">>

\* C12: unticking a tool removes its entry, and the entry that comes back
\* once the tool is ticked again and rediscovered has the id the removed
\* entry had.
DisableEnableKeepsId ==
  [][/\ \A s \in ServerNames, t \in ToolNames :
          (ToggleTool(s, t, FALSE)
             => fullToolKey(s, t) \notin DOMAIN registeredTools')
     /\ \A k \in DOMAIN removedId :
          (k \notin DOMAIN registeredTools /\ k \in DOMAIN registeredTools')
             => registeredTools'[k] = removedId[k]]_vars

\* the server's tools that are registered with the host
ServerEntries ==
  { k \in DOMAIN registeredTools : startsWith(k, ServerName \o <<":">>) }

\* C13: when a health-check round trip fails while the connection is
\* Connected, the state becomes Error, the server's tools are unregistered,
\* and with auto-reconnect on and budget left a reconnect is scheduled.
HealthFailureUnregisters ==
  [][(HealthFailed /\ mc.status = "Connected") =>
       /\ mc'.status = "Error"
       /\ ServerEntries' = {}
       /\ (mc.autoReconnect /\ mc.reconnectAttempts < MaxReconnectAttempts)
            => mc'.reconnectTimer]_vars

\* C14: a host invocation of a registered tool never throws to the host:
\* when invokeTool fails with not-connected, cancelled or a failed transport
\* call the handler returns a failure result, and on success a success result.
HostInvokeNeverThrows ==
  (lastResult.via = "registry" /\ lastResult.how # "pending") =>
    /\ lastResult.how = "returned"
    /\ lastResult.what \in {"Result", "NotConnected", "Cancelled", "CallFailed"}

\* C14 witness: the host invoked the registered tool, callTool was issued
\* and rejected, and the handler returned the failure.
HostCallFailureReturned ==
  /\ lastResult.via = "registry" /\ lastResult.issued
  /\ lastResult.what = "CallFailed" /\ lastResult.how = "returned"

\* C15: at most one connect attempt is in flight at any time, under any
\* interleaving of connect(), timer-fired reconnects, reconnect() and
\* disconnect().
OneAttemptInFlight == InFlight <= 1

\* C16: the result of a listTools() issued on a transport that is no longer
\* the connection's current transport is ignored: it neither changes the
\* discovered tools nor brings the state to Connected.
StaleDiscoveryIgnored ==
  [][(conn'.list < conn.list /\ conn'.cur = conn.cur) =>
       /\ mc'.discoveredTools = mc.discoveredTools
       /\ mc'.status = "Connected" => mc.status = "Connected"]_vars

\* C20: every change of the state is an allowed transition; in particular a
\* step in which connect() does not run never takes the state from
\* Disconnected to another state, nor from Error to Connecting or Connected.
OnlyAllowedTransitions ==
  [][nextId' = nextId =>
       /\ mc.status = "Disconnected" => mc'.status = "Disconnected"
       /\ mc.status = "Error" => mc'.status \in {"Error", "Disconnected"}]_vars

\* the keys of the registered tools of the server name
EntriesOf(name) ==
  { k \in DOMAIN registeredTools : startsWith(k, name \o <<":">>) }

\* C17: addServer with the name of an already configured server fails with
\* the duplicate-name error and leaves the configured servers, the
\* connections and the registry as they were.
DuplicateAddRejected ==
  [][\A name \in ServerNames :
       (AddServer(name) /\ hasServer(ext.servers, name)) =>
         /\ ext'.lastOp = [op |-> "addServer", name |-> name, result |-> "DuplicateName"]
         /\ ext'.servers = ext.servers
         /\ ext'.clients = ext.clients
         /\ ext'.objs = ext.objs
         /\ ext'.tasks = ext.tasks
         /\ registeredTools' = registeredTools
         /\ toolStates' = toolStates]_vars

\* C17 witness: addServer was refused for the name of a server that is
\* connected and has a tool registered.
DuplicateOfConnectedRefused ==
  /\ ext.lastOp.op = "addServer" /\ ext.lastOp.result = "DuplicateName"
  /\ ext.lastOp.name \in DOMAIN ext.clients
  /\ ext.objs[ext.clients[ext.lastOp.name]].status = "Connected"
  /\ EntriesOf(ext.lastOp.name) # {}

\* the removeServer handlers that are writing the servers setting without name
Discarding(name) ==
  { k \in 1..Len(ext.tasks) :
      /\ Head(ext.tasks[k]).op = "awaitUpdate" /\ Head(ext.tasks[k]).name = name
      /\ ext.tasks[k][Len(ext.tasks[k])].op = "doneRemove" }

\* in this step a removeServer handler discards the configuration of name:
\* one more of them awaits its update of the setting
Discards(name) == Cardinality(Discarding(name)') > Cardinality(Discarding(name))

\* removeServer on a connected server: the request unregisters the server's
\* tools and leaves the configuration alone; the configuration is discarded
\* only in a step after which the name is out of the clients map and the
\* connection the handler found is closed
RemoveOrder(name) ==
  /\ (RemoveServer(name) /\ name \in DOMAIN ext.clients) =>
        /\ EntriesOf(name)' = {}
        /\ ext'.servers = ext.servers
  /\ Discards(name) =>
        /\ name \notin DOMAIN ext'.clients
        /\ \A k \in 1..Len(ext.tasks) :
             (TaskStep(k) /\ Head(ext.tasks[k]).op = "awaitDisconnect") =>
               LET c == ext'.objs[Head(ext.tasks[k]).obj]
               IN c.status = "Disconnected" /\ c.client = 0 /\ c.transport = 0

\* the step leaves the extension, but for its count of requests and the
\* outcome it reports, and the registry as they were
ChangesNothing ==
  /\ ext'.servers = ext.servers /\ ext'.clients = ext.clients
  /\ ext'.objs = ext.objs /\ ext'.tasks = ext.tasks
  /\ registeredTools' = registeredTools /\ toolStates' = toolStates

NotFoundShown(name) ==
  ext'.lastOp = [op |-> "removeServer", name |-> name, result |-> "NotFound"]

\* C18 as stated: removeServer first unregisters the server's tools and
\* disconnects its connection and only then discards its configuration;
\* removing a name that is not configured fails with the not-found error and
\* changes nothing.
RemoveThenDiscard ==
  [][\A name \in ServerNames :
       /\ RemoveOrder(name)
       /\ (RemoveServer(name) /\ ~hasServer(ext.servers, name)) =>
             NotFoundShown(name) /\ ChangesNothing]_vars

\* C18 as amended: removeServer first unregisters the server's tools and
\* disconnects its connection and only then discards its configuration;
\* removing a name that is not configured fails with the not-found error,
\* at once and changing nothing when the clients map holds no connection
\* under the name, and else after that connection has been unregistered and
\* disconnected.
RemoveThenDiscardUnlessConnected ==
  [][\A name \in ServerNames :
       /\ RemoveOrder(name)
       /\ (RemoveServer(name) /\ ~hasServer(ext.servers, name)
              /\ name \notin DOMAIN ext.clients) =>
             NotFoundShown(name) /\ ChangesNothing
       /\ \A k \in 1..Len(ext.tasks) :
            (TaskStep(k) /\ Head(ext.tasks[k]).op = "awaitDisconnect"
               /\ Len(ext.tasks[k]) > 1 /\ ext.tasks[k][2] = Op("cfgRemove", name, 0)
               /\ ~hasServer(ext.servers, name)) =>
              NotFoundShown(name) /\ ext'.servers = ext.servers /\ ~Discards(name)]_vars

\* C18 witness: removeServer has discarded the configuration of a server,
\* whose connection is out of the clients map and closed.
RemovedAfterDisconnect ==
  /\ ext.lastOp.op = "removeServer" /\ ext.lastOp.result = "ok"
  /\ ~hasServer(ext.servers, ext.lastOp.name)
  /\ ext.lastOp.name \notin DOMAIN ext.clients
  /\ \E i \in 1..Len(ext.objs) :
       /\ ext.objs[i].name = ext.lastOp.name
       /\ ext.objs[i].status = "Disconnected" /\ ext.objs[i].transport = 0

\* a failure of the connection of object i: a connect() call fails, the
\* transport reports an error or the health check fails
FailureOf(i) ==
  \/ \E first \in BOOLEAN : AttemptFailed(i, first)
  \/ ObjTransportError(i)
  \/ ObjHealthFailed(i)

\* all there is of the server name: its objects with their state, timers
\* and tools, its entry in the clients map and its registered tools
ViewOf(name) ==
  [objs |-> { <<i, ext.objs[i]>> : i \in { j \in 1..Len(ext.objs) : ext.objs[j].name = name } },
   client |-> IF name \in DOMAIN ext.clients THEN ext.clients[name] ELSE 0,
   entries |-> [k \in EntriesOf(name) |-> registeredTools[k]]]

\* C19: a failure of one server's connection, with or without reconnect
\* budget left, changes nothing of any other server, nor the calls that are
\* connecting the other servers, and lets the connectServer call that awaits
\* the failed connect() return.
ServersIndependent ==
  [][\A i \in 1..Len(ext.objs) :
       FailureOf(i) =>
         /\ \A name \in ServerNames \ {ext.objs[i].name} : ViewOf(name)' = ViewOf(name)
         /\ ext'.tasks = ext.tasks /\ ext'.servers = ext.servers
         /\ AttemptFailed(i, TRUE) => ext'.objs[i].first = "done"]_vars

\* C19 witness: the first server's connection never got a tool registered
\* and rests in Error with its reconnect budget used up, and the second
\* server, connected after it, is Connected with its tool registered.
OtherServerConnected ==
  /\ Len(ext.objs) = 2 /\ ext.tasks = <<>>
  /\ ext.objs[1].status = "Error" /\ ext.objs[1].autoReconnect
  /\ ext.objs[1].reconnectAttempts = MaxReconnectAttempts
  /\ ~ext.objs[1].reconnectTimer /\ ext.objs[1].pend = 0
  /\ EntriesOf(ext.objs[1].name) = {}
  /\ ext.objs[2].status = "Connected" /\ ext.objs[2].healthCheckInterval
  /\ EntriesOf(ext.objs[2].name) # {}

\* C21: whenever the connection's state is not Connected the registry holds
\* no entry of the server: entries exist in lockstep with the state.
EntriesOnlyWhileConnected ==
  mc.status # "Connected" => ServerEntries = {}

\* the object i is a live connection: its transport is open, or a reconnect
\* timer or a health-check interval of it is pending in the runtime
Live(i) ==
  \/ ext.objs[i].transport # 0
  \/ ext.objs[i].timeouts > 0
  \/ ext.objs[i].intervals > 0

\* C22: under any interleaving of the calls that connect, disconnect and
\* reload servers, every MCPClient with an open transport or a pending timer
\* is the one the clients map holds under its name, so that no name has two
\* live connections.
LiveConnectionsInMap ==
  \A i \in 1..Len(ext.objs) :
    Live(i) => /\ ext.objs[i].name \in DOMAIN ext.clients
               /\ ext.clients[ext.objs[i].name] = i

\* C23: when the connect() that reconnect() issues after its disconnect()
\* starts, no reconnect timer is pending, and that connect() begins exactly
\* one attempt.
ReconnectAttemptsOnce ==
  [][(disc.re /\ disc'.pc = "idle") =>
       /\ ~mc.reconnectTimer /\ mc.timeouts = 0
       /\ nextId' = nextId + 1]_vars

\* C24: in every reachable state an active health-check interval means that
\* the state is Connected: the interval is stopped in the step in which the
\* state leaves Connected.
HealthCheckOnlyWhileConnected ==
  (mc.healthCheckInterval \/ mc.intervals > 0) => mc.status = "Connected"

\* C25: registerServerTools is a full replace: after it has registered the
\* tools of a discovery, the host accepting each registration, the entries
\* of the server are exactly the enabled tools of that discovery; entries of
\* an earlier discovery for tools no longer reported or now disabled are gone.
RegisterIsFullReplace ==
  [][\A s \in ServerNames, l \in ToolLists :
       RegisterServerTools(s, l, [i \in 1..Len(l) |-> TRUE]) =>
         EntriesOf(s)' = { fullToolKey(s, l[i]) :
                             i \in { j \in 1..Len(l) :
                                       getToolState(toolStates, s, l[j]).enabled } }]_vars

\* C26: unregisterServerTools(serverName) changes only the entries of
\* serverName: every entry of another server is registered afterwards as it
\* was before, also when one name is a prefix of the other or holds ':'.
UnregisterTouchesOwnOnly ==
  [][\A s \in OwnerNames :
       UnregisterServerTools(s) =>
         \A s2 \in OwnerNames \ {s}, t \in ToolNames :
           fullToolKey(s2, t) \in DOMAIN registeredTools =>
             /\ fullToolKey(s2, t) \in DOMAIN registeredTools'
             /\ registeredTools'[fullToolKey(s2, t)] = registeredTools[fullToolKey(s2, t)]]_vars

\* C27: every transition from Connecting to Connected resets the
\* reconnect-attempt counter to zero and starts the health-check loop, and
\* whenever the state is Connected the counter is 0.
ConnectedResetsCounter ==
  /\ [](mc.status = "Connected" => mc.reconnectAttempts = 0)
  /\ [][(mc.status = "Connecting" /\ mc'.status = "Connected") =>
          /\ mc'.reconnectAttempts = 0
          /\ mc'.healthCheckInterval /\ mc'.intervals = 1]_vars

\* C27 witness: with auto-reconnect on, an attempt failed and was counted,
\* and a later attempt has brought the connection to Connected with the
\* counter at zero and the health check running.
ConnectedAfterRetry ==
  /\ mc.status = "Connected" /\ mc.autoReconnect
  /\ conn.done >= 2 /\ InFlight = 0
  /\ mc.reconnectAttempts = 0 /\ mc.healthCheckInterval

\* what an error notification does to the connection of object i in the
\* state it arrives in: an 'error' event is emitted, the state becomes Error
\* and, with auto-reconnect on, no timer pending and budget left, a reconnect
\* is scheduled and counted; the other objects, the clients map, the calls
\* in flight and the registry stay as they are
ErrorEffect(i) ==
  LET c == ext.objs[i]
      e == IF c.autoReconnect /\ ~c.reconnectTimer
              /\ c.reconnectAttempts < MaxReconnectAttempts
           THEN [c EXCEPT !.status = "Error", !.errorEvents = 1 - @,
                          !.reconnectAttempts = @ + 1,
                          !.reconnectTimer = TRUE, !.timeouts = @ + 1,
                          !.scheduled = @ + 1]
           ELSE [c EXCEPT !.status = "Error", !.errorEvents = 1 - @]
  IN /\ ext'.objs[i].err \in {"transport", "health"}
     /\ [ext'.objs[i] EXCEPT !.err = "none"] = [e EXCEPT !.err = "none"]
     /\ Len(ext'.objs) = Len(ext.objs)
     /\ \A j \in 1..Len(ext.objs) : j # i => ext'.objs[j] = ext.objs[j]
     /\ ext'.clients = ext.clients /\ ext'.tasks = ext.tasks
     /\ registeredTools' = registeredTools

\* C28: a failing health-check round trip has the same effect on the
\* connection as a transport error received in the same state: an error
\* event, the same Error transition, the same reconnect scheduling decision
\* and the same change of the counter.
HealthFailureAsTransportError ==
  [][\A i \in 1..Len(ext.objs) :
       (ObjHealthFailed(i) \/ ObjTransportError(i)) => ErrorEffect(i)]_vars

\* C28 witness: the health check of a Connected connection with
\* auto-reconnect on has failed: the state is Error and the first reconnect
\* is scheduled.
HealthFailureScheduled ==
  \E i \in 1..Len(ext.objs) :
    /\ ext.objs[i].err = "health" /\ ext.objs[i].status = "Error"
    /\ ext.objs[i].autoReconnect /\ ext.objs[i].reconnectTimer
    /\ ext.objs[i].reconnectAttempts = 1

\* C29: a clean close reported while the state is Connected makes the state
\* Disconnected and, with auto-reconnect on, leaves a delayed reconnect
\* scheduled, the counter not being reset but counting the reconnect that
\* the close schedules; without auto-reconnect the timers stay as they are.
\* A close reported in any other state changes neither the state nor the
\* timers.
CleanCloseSchedulesReconnect ==
  [][TransportClose =>
       IF mc.status = "Connected"
       THEN /\ mc'.status = "Disconnected"
            /\ mc.autoReconnect =>
                 /\ mc'.reconnectTimer /\ mc'.timeouts > 0
                 /\ mc'.reconnectAttempts
                      = mc.reconnectAttempts + (IF mc.reconnectTimer THEN 0 ELSE 1)
            /\ ~mc.autoReconnect =>
                 /\ mc'.reconnectTimer = mc.reconnectTimer
                 /\ mc'.timeouts = mc.timeouts
                 /\ mc'.reconnectAttempts = mc.reconnectAttempts
       ELSE mc' = mc]_vars

\* C29 witness: the only attempt had brought the connection to Connected,
\* with auto-reconnect on; the transport closed, the state is Disconnected
\* and the reconnect that the close scheduled is pending and counted.
ClosedWhileConnected ==
  /\ nextId = 2 /\ conn.done = 1 /\ alive = 0
  /\ disc.pc = "idle" /\ afterDisconnect = "no"
  /\ mc.status = "Disconnected" /\ mc.autoReconnect
  /\ mc.reconnectTimer /\ mc.timeouts = 1 /\ mc.reconnectAttempts = 1

\* the names of the configured servers
Configured(servers) == { servers[i] : i \in 1..Len(servers) }

\* in this step the reloadServers() call k returns
ReloadReturns(k) ==
  /\ TaskStep(k)
  /\ ext.tasks[k][Len(ext.tasks[k])].op = "doneReload"
  /\ Len(ext'.tasks) < Len(ext.tasks)
  /\ ext'.lastOp = [op |-> "reloadServers", name |-> <<>>, result |-> "ok"]

\* C30: when reloadServers() has completed, the clients map holds a
\* connection for every configured server (all of them enabled) and for no
\* other name. Stated for the returns after which no other call of the
\* extension is in progress.
ReloadConnectsConfigured ==
  [][\A k \in 1..Len(ext.tasks) :
       (ReloadReturns(k) /\ ext'.tasks = <<>>)
         => DOMAIN ext'.clients = Configured(ext'.servers)]_vars

\* the disconnectServer calls that have unregistered their server's tools
\* and await client.disconnect()
Disconnecting == { k \in 1..Len(ext.tasks) : Head(ext.tasks[k]).op = "awaitDisconnect" }

\* a registerServerTools call has registered a tool and has more to register
BatchInProgress ==
  \E k \in 1..Len(ext.tasks) :
    \E j \in 1..Len(ext.tasks[k]) : ext.tasks[k][j].op = "register"

\* C31: no disconnectServer runs its unregisterServerTools between the
\* registrations of two tools of one registerServerTools call.
BatchesRunToCompletion ==
  [][Cardinality(Disconnecting') > Cardinality(Disconnecting)
       => ~BatchInProgress]_vars

\* C32: a failure to open the transport, of discovery, of the transport or
\* of the health check sets Error and emits 'error' in the same step, and
\* the state never becomes Error in a step that emits no 'error' event.
ErrorsSurfaced ==
  [][/\ (ConnectOpenFailed \/ ListFailed \/ TransportError \/ HealthFailed)
          => /\ mc'.status = "Error"
             /\ mc'.errorEvents # mc.errorEvents
     /\ (mc.status # "Error" /\ mc'.status = "Error")
          => mc'.errorEvents # mc.errorEvents]_vars

\* C32 witness: the first attempt has connected and the transport or the
\* health check has then failed, with auto-reconnect off: the state is Error
\* and the one 'error' event has been emitted.
FailureSurfaced ==
  /\ nextId = 2 /\ conn.done = 1 /\ alive = 1 /\ health = 0
  /\ disc.pc = "idle" /\ afterDisconnect = "no"
  /\ mc.status = "Error" /\ mc.errorEvents = 1
  /\ mc.healthCheckInterval /\ ~mc.autoReconnect

\* C33: no step makes a registration or an entry for a tool whose state is
\* disabled (an entry the tool already has is left as it is or removed), and
\* registerServerTools, the host accepting each registration, registers
\* every enabled tool of the batch under the id of its state.
RegisterSkipsDisabled ==
  [][/\ \A s \in ServerNames, t \in ToolNames :
          LET key == fullToolKey(s, t)
          IN (~getToolState(toolStates, s, t).enabled /\ key \in DOMAIN registeredTools')
               => /\ key \in DOMAIN registeredTools
                  /\ registeredTools'[key] = registeredTools[key]
     /\ \A s \in ServerNames, l \in ToolLists :
          RegisterServerTools(s, l, [i \in 1..Len(l) |-> TRUE]) =>
            \A j \in 1..Len(l) :
              LET key == fullToolKey(s, l[j])
                  toolState == getToolState(toolStates, s, l[j])
              IN toolState.enabled =>
                   /\ key \in DOMAIN registeredTools'
                   /\ registeredTools'[key] = toolId(s, l[j], toolState)]_vars

\* C33 witness: of the two tools of server a the one that is disabled has no
\* entry and the enabled one is registered.
DisabledSkippedOtherRegistered ==
  /\ <<ServerName, <<"c">>>> \in DOMAIN toolStates
  /\ ~toolStates[<<ServerName, <<"c">>>>].enabled
  /\ DOMAIN registeredTools = { fullToolKey(ServerName, <<"b", "_", "_", "c">>) }

\* the entries registered for the tools of server name
OwnedBy(m, name) == { fullToolKey(name, t) : t \in ToolNames } \cap DOMAIN m

\* C34: unregisterServerTools(serverName) leaves no entry of serverName, a
\* second call right after it changes nothing, and a call made when no
\* entry of serverName is registered changes nothing.
UnregisterIdempotent ==
  [][\A s \in OwnerNames :
       UnregisterServerTools(s) =>
         /\ OwnedBy(registeredTools', s) = {}
         /\ unregisterServerTools(registeredTools', s) = registeredTools'
         /\ OwnedBy(registeredTools, s) = {} => registeredTools' = registeredTools]_vars

\* the disposables that no key of the registry holds
Dropped == (1..Len(handles.disposed)) \ { handles.of[k] : k \in DOMAIN handles.of }

\* C35: no disposable is disposed more than once; the registry holds
\* exactly the disposables not yet disposed, one under each key, so that
\* after dispose() every disposable obtained so far has been disposed once,
\* and after unregisterServerTools(s) every one obtained for a tool of s.
HandlesReleasedOnce ==
  /\ [](/\ \A d \in 1..Len(handles.disposed) : handles.disposed[d] <= 1
        /\ DOMAIN handles.of = DOMAIN registeredTools
        /\ \A k1, k2 \in DOMAIN handles.of : handles.of[k1] = handles.of[k2] => k1 = k2
        /\ \A k \in DOMAIN handles.of : handles.disposed[handles.of[k]] = 0
        /\ \A d \in Dropped : handles.disposed[d] = 1)
  /\ [][/\ DisposeRegistry =>
             \A d \in 1..Len(handles.disposed) : handles'.disposed[d] = 1
        /\ \A s \in OwnerNames :
             UnregisterHandles(s) =>
               \A t \in ToolNames :
                 fullToolKey(s, t) \in DOMAIN handles.of =>
                   handles'.disposed[handles.of[fullToolKey(s, t)]] = 1]_vars

\* C35 witness: two disposables obtained for the tool c of server a have
\* each been disposed once, by a registration of the tool again, an
\* unregistration or dispose(), and the third one is held under its key.
ReRegisteredAndDisposed ==
  /\ Len(handles.disposed) = 3
  /\ handles.disposed = <<1, 1, 0>>
  /\ handles.of = (fullToolKey(ServerName, <<"c">>) :> 3)

\* the connection as invokeTool could touch it: state, counter, both timers,
\* the discovered tools, client and transport
ConnectionOf(c) ==
  << c.status, c.reconnectAttempts, c.reconnectTimer, c.timeouts,
     c.healthCheckInterval, c.intervals, c.discoveredTools, c.client, c.transport >>

\* C36: no step of a tool invocation, whether it is refused, cancelled,
\* fails or returns a result, changes the connection's state, its reconnect
\* counter, its timers or its discovered tools.
InvokeLeavesConnection ==
  [][((\E via \in {"direct", "registry"}, pre \in BOOLEAN : Invoke(via, pre))
        \/ CancelToken \/ CallResolved \/ CallRejected)
       => ConnectionOf(mc') = ConnectionOf(mc)]_vars

\* C36 witness: callTool was rejected on the connected client: the error
\* was emitted and thrown, and the connection is Connected as before, its
\* health check running and no reconnect scheduled.
CallFailedStillConnected ==
  /\ lastResult.what = "CallFailed" /\ lastResult.issued
  /\ inv.pc = "idle"
  /\ mc.status = "Connected" /\ mc.errorEvents = 1
  /\ mc.healthCheckInterval /\ ~mc.reconnectTimer /\ mc.reconnectAttempts = 0
  /\ mc.discoveredTools = ServerTools

\* the connection is Connected, or rests in Error: no timer pending and no
\* attempt in flight
ConnectedOrAtRest ==
  \/ mc.status = "Connected"
  \/ /\ mc.status = "Error" /\ ~mc.reconnectTimer /\ mc.timeouts = 0
     /\ InFlight = 0

\* C37: with auto-reconnect on, timers firing and requests being answered,
\* the connection always comes to be Connected or, its attempts having
\* failed, to rest in Error with no timer pending.
ReconnectsOrRests == []<>ConnectedOrAtRest

\* C37 witness: the first connection was closed by the server and the
\* attempt that the reconnect timer started has connected.
ReconnectedAfterClose ==
  /\ idLimit = LiveAttempts
  /\ nextId = 3 /\ conn.done = 2 /\ alive = 1
  /\ mc.status = "Connected" /\ mc.timeouts = 0 /\ mc.errorEvents = 0

\* C38: the reconnect-attempt counter stays within 0..maxReconnectAttempts,
\* also where a clean close of the transport, which tests no budget,
\* schedules the reconnect.
CounterWithinBudget ==
  /\ mc.reconnectAttempts >= 0
  /\ mc.reconnectAttempts <= MaxReconnectAttempts

\* C38 witness: the first attempt failed, the second connected, and the
\* server then closed the transport: onclose has scheduled a reconnect and
\* counted it.
CloseScheduledReconnect ==
  /\ nextId = 3 /\ conn.done = 2 /\ alive = 1
  /\ mc.status = "Disconnected" /\ mc.autoReconnect
  /\ mc.reconnectTimer /\ mc.timeouts = 1 /\ mc.reconnectAttempts = 1
  /\ mc.errorEvents = 1
  /\ disc.pc = "idle" /\ afterDisconnect = "no"

\* C39: a connection has at most one reconnect timer and at most one
\* health-check interval outstanding, and the fields reconnectTimer and
\* healthCheckInterval say whether there is one; a reconnect is scheduled
\* only while no reconnect timer is pending.
OneTimerOneInterval ==
  /\ [](/\ mc.timeouts \in {0, 1}
        /\ mc.intervals \in {0, 1}
        /\ mc.reconnectTimer <=> mc.timeouts = 1
        /\ mc.healthCheckInterval <=> mc.intervals = 1)
  /\ [][mc'.timeouts > mc.timeouts
          => (~mc.reconnectTimer /\ mc.timeouts = 0 /\ mc'.timeouts = 1)]_vars
  /\ [][mc'.intervals > mc.intervals
          => (~mc.healthCheckInterval /\ mc'.intervals = 1)]_vars

\* C39 witness: the only attempt failed and a reconnect was scheduled; the
\* transport then raised a second error while that timer was pending, and
\* no second timer was set.
SecondErrorNoSecondTimer ==
  /\ nextId = 2 /\ conn.done = 1 /\ InFlight = 0
  /\ mc.status = "Error" /\ mc.errorEvents = 0
  /\ mc.reconnectTimer /\ mc.timeouts = 1 /\ mc.scheduled = 1
  /\ disc.pc = "idle" /\ afterDisconnect = "no"

====
